---- MODULE Spec2Model ----
(***************************************************************************)
(* WhatsApp agent on Cloudflare Workers: the webhook worker (worker.ts),   *)
(* the per-user ConversationDurableObject (durable-objects/conversation.ts)*)
(* and the WhatsApp client (services/whatsapp.ts).                         *)
(*                                                                         *)
(* One Durable Object exists per wa_id.  An object runs one piece of       *)
(* JavaScript at a time, but an invocation that awaits a fetch() gives the *)
(* object back to the event loop, so other calls on the same object can    *)
(* run until that fetch settles.  Storage get/put/delete do not yield to   *)
(* other events.  Each action below is therefore one run of code between   *)
(* two fetch() awaits.                                                     *)
(***************************************************************************)
EXTENDS Integers, Sequences, FiniteSets, TLC

VARIABLES
    storage,    \* per object: the value stored under the key 'messages'
    inv,        \* per object and slot: a processMessage invocation
    nextEv,     \* number given to the next message event or clearHistory call
    receiptFailed, \* whether some markMessageAsRead call has failed so far
    log,        \* SpecAppend only: every message handed to addMessage
    appStore,   \* SpecAppend only: the storage addMessage works on
    http        \* SpecHttp only: the last answer of POST /webhook and its request

vars == <<storage, inv, nextEv, receiptFailed, log, appStore, http>>

\* ------------------------------------------------------------------ bounds
MaxInFlight == 2
MaxEvents == 2
MaxAppends == 22
MaxMarked == 2
BurstEvents == 11

\* --------------------------------------------------------------- constants
MAX_MESSAGES == 20

Keys == {"u1", "u2"}
Slots == 1..MaxInFlight

NONE == "none"
FALLBACK_NOTICE == "Sorry, I can only process text messages in this demo."
APOLOGY == "I apologize, but I encountered an error. Please try again."
NO_RESPONSE == "I'm sorry, I couldn't generate a response."
ERR_INVALID == "Invalid webhook data"
ERR_MISSING == "Missing contact or message"
ERR_UNSUPPORTED == "Unsupported message type"
ERR_SEND == "Failed to send WhatsApp message"
\* message of the Error thrown by sendTextMessage: the prefix plus the body
\* of the provider's error response
ERR_SEND_THROWN == "Failed to send WhatsApp message: <provider error>"

Roles == {"user", "assistant", "system"}

\* ------------------------------------------------------------------- types
\* A Message.  The timestamp is the number of the event the message belongs
\* to: the provider's timestamp for a user message, the time of the reply for
\* an assistant message.
Message(r, c, t) == [role |-> r, content |-> c, timestamp |-> t]

\* WhatsAppMessage: its type and optional text.body
Inbound(ty, hasText, b) == [type |-> ty, text |-> [has |-> hasText, body |-> b]]

InboundMessages ==
    { Inbound("text", TRUE, "Hello"),
      Inbound("text", TRUE, ""),
      Inbound("text", FALSE, ""),
      Inbound("image", FALSE, "") }

\* WhatsAppWebhookPayload: entry[0].changes[0].value with its optional
\* contacts and messages arrays (contacts hold wa_id values)
Payload(e, hasC, cs, hasM, ms) ==
    [entry |-> e,
     contacts |-> [has |-> hasC, items |-> cs],
     messages |-> [has |-> hasM, items |-> ms]]

ValidPayloads ==
    { Payload(TRUE, TRUE, <<w>>, TRUE, <<m>>) : w \in Keys, m \in InboundMessages }

SomeMsg == Inbound("text", TRUE, "Hello")

InvalidPayloads ==
    { Payload(FALSE, FALSE, <<>>, FALSE, <<>>),
      Payload(TRUE, FALSE, <<>>, TRUE, <<SomeMsg>>),
      Payload(TRUE, TRUE, <<"u1">>, FALSE, <<>>),
      Payload(TRUE, TRUE, <<>>, TRUE, <<SomeMsg>>),
      Payload(TRUE, TRUE, <<"u1">>, TRUE, <<>>) }

Payloads == ValidPayloads \cup InvalidPayloads

Result(s, e, r) == [success |-> s, error |-> e, response |-> r]
NoResult == Result(FALSE, NONE, NONE)

\* ----------------------------------------------------------------- storage
Absent == [has |-> FALSE, messages |-> <<>>]
Stored(h) == [has |-> TRUE, messages |-> h]

\* getHistory: the stored list, or [] when nothing is stored
GetHistory(st) == IF st.has THEN st.messages ELSE <<>>

\* Array.prototype.slice(start) with a negative start
SliceFrom(h, start) ==
    LET n == Len(h)
        from == IF start < 0 THEN (IF n + start < 0 THEN 0 ELSE n + start)
                ELSE (IF start > n THEN n ELSE start)
    IN  SubSeq(h, from + 1, n)

\* addMessage without the trim
AddMessageNoTrim(st, m) == Stored(Append(GetHistory(st), m))

\* addMessage keeping the first MAX_MESSAGES entries instead of the last
AddMessageKeepOldest(st, m) ==
    LET history == Append(GetHistory(st), m)
    IN  Stored(IF Len(history) > MAX_MESSAGES
               THEN SubSeq(history, 1, MAX_MESSAGES)
               ELSE history)

\* addMessage: load, push, keep the last MAX_MESSAGES, put
AddMessage(st, m) ==
    LET history == Append(GetHistory(st), m)
        trimmedHistory == IF Len(history) > MAX_MESSAGES
                          THEN SliceFrom(history, -MAX_MESSAGES)
                          ELSE history
    IN  Stored(trimmedHistory)

\* -------------------------------------------------------------- invocation
\* One processMessage invocation: where it stands (pc), its argument, its
\* locals (history, response), what generateText and sendTextMessage settled
\* to (gen, delivery), the calls it made to the collaborators (receiptCalls,
\* genCalls, sends), what it returned (result) and the stored history at the
\* moment it returned (final).
Idle ==
    [pc |-> "idle", ev |-> 0, payload |-> Payload(FALSE, FALSE, <<>>, FALSE, <<>>),
     history |-> <<>>, response |-> NONE,
     gen |-> [kind |-> NONE, text |-> ""], delivery |-> NONE,
     receiptCalls |-> 0, genCalls |-> <<>>, sends |-> <<>>,
     result |-> NoResult, final |-> <<>>]

Step(i, st) == [inv |-> i, st |-> st]

Returned(i, st, res) ==
    Step([i EXCEPT !.pc = "done", !.result = res, !.final = GetHistory(st)], st)

\* the first check looking at messages only
InvalidWebhookDataMessagesOnly(p) == ~p.entry \/ ~p.messages.has

\* !changes?.value?.messages || !changes?.value?.contacts
InvalidWebhookData(p) == ~p.entry \/ ~p.messages.has \/ ~p.contacts.has

\* !contact || !message, for contacts[0] and messages[0]
MissingContactOrMessage(p) ==
    Len(p.contacts.items) = 0 \/ Len(p.messages.items) = 0

WaId(p) == p.contacts.items[1]
InboundOf(p) == p.messages.items[1]

\* the type check without the check of the body
UnsupportedMessageTypeOnly(m) == m.type # "text"

\* message.type !== 'text' || !message.text?.body
UnsupportedMessage(m) == m.type # "text" \/ ~m.text.has \/ m.text.body = ""

Send(text, to) == [message |-> text, recipient |-> to]

\* processMessage from its entry to the fetch of markMessageAsRead
Begin(p, ev, st) ==
    LET i == [Idle EXCEPT !.ev = ev, !.payload = p]
    IN  IF InvalidWebhookData(p)
        THEN Returned(i, st, Result(FALSE, ERR_INVALID, NONE))
        ELSE IF MissingContactOrMessage(p)
        THEN Returned(i, st, Result(FALSE, ERR_MISSING, NONE))
        ELSE Step([i EXCEPT !.pc = "receipt", !.receiptCalls = 1], st)

ReceiptOutcomes == {"ok", "not_ok", "throw"}

\* a receipt call whose exceptions are not caught
ReceiptSettlesUncaught(outcome) == IF outcome = "throw" THEN "abort" ELSE "continue"

\* markMessageAsRead inside its try/catch: a non-OK response is only warned
\* about inside markMessageAsRead, a thrown error is only warned about here
ReceiptSettles(outcome) == "continue"

\* the user message stored before the type check
OnReceiptStoreFirst(i, st, outcome) ==
    LET p == i.payload
        message == InboundOf(p)
        waId == WaId(p)
        history == GetHistory(st)
        userMessage == Message("user", message.text.body, i.ev)
    IN  IF UnsupportedMessage(message)
        THEN Step([i EXCEPT !.pc = "fallback_send",
                            !.history = history,
                            !.sends = Append(@, Send(FALLBACK_NOTICE, waId))],
                  AddMessage(st, userMessage))
        ELSE Step([i EXCEPT !.pc = "generate",
                            !.history = history,
                            !.genCalls = Append(@, Append(history, userMessage))],
                  AddMessage(st, userMessage))

\* processMessage from the settling of markMessageAsRead to its next fetch:
\* sendTextMessage of the fallback notice, or generateText after the user
\* message was stored
OnReceipt(i, st, outcome) ==
    LET p == i.payload
        message == InboundOf(p)
        waId == WaId(p)
        j == i
    IN  IF ReceiptSettles(outcome) = "abort"
        THEN Returned(j, st, Result(FALSE, "receipt error", NONE))
        ELSE IF UnsupportedMessage(message)
        THEN Step([j EXCEPT !.pc = "fallback_send",
                            !.sends = Append(@, Send(FALLBACK_NOTICE, waId))], st)
        ELSE LET history == GetHistory(st)
                 userMessage == Message("user", message.text.body, i.ev)
             IN  Step([j EXCEPT !.pc = "generate",
                                !.history = history,
                                !.genCalls = Append(@, Append(history, userMessage))],
                      AddMessage(st, userMessage))

\* what generateText settles to: a text, an empty text, or an exception
GenOutcomes == { [kind |-> "ok", text |-> "Hi! How can I help?"],
                 [kind |-> "ok", text |-> ""],
                 [kind |-> "throw", text |-> ""] }

\* generateResponse with the exception propagating
GenerateResponseRethrow(out) ==
    IF out.kind = "throw" THEN NONE
    ELSE IF out.text = "" THEN NO_RESPONSE ELSE out.text

\* generateResponse: result.text || fallback, and the apology on any error
GenerateResponse(out) ==
    IF out.kind = "throw" THEN APOLOGY
    ELSE IF out.text = "" THEN NO_RESPONSE ELSE out.text

\* the assistant message appended to the history loaded at the start of the
\* invocation instead of the stored one
OnGeneratedFromSnapshot(i, st, out) ==
    LET response == GenerateResponse(out)
        j == [i EXCEPT !.gen = out]
        snapshot == Stored(i.genCalls[Len(i.genCalls)])
    IN  Step([j EXCEPT !.pc = "send",
                       !.response = response,
                       !.sends = Append(@, Send(response, WaId(i.payload)))],
             AddMessage(snapshot, Message("assistant", response, i.ev)))

\* the apology sent but not stored
OnGeneratedApologyUnstored(i, st, out) ==
    LET response == GenerateResponse(out)
        j == [i EXCEPT !.gen = out]
    IN  Step([j EXCEPT !.pc = "send",
                       !.response = response,
                       !.sends = Append(@, Send(response, WaId(i.payload)))],
             IF out.kind = "throw" THEN st
             ELSE AddMessage(st, Message("assistant", response, i.ev)))

\* processMessage from the settling of generateText to the fetch of
\* sendTextMessage
OnGenerated(i, st, out) ==
    LET response == GenerateResponse(out)
        j == [i EXCEPT !.gen = out]
    IN  IF response = NONE
        THEN Returned(j, st, Result(FALSE, "generation error", NONE))
        ELSE Step([j EXCEPT !.pc = "send",
                            !.response = response,
                            !.sends = Append(@, Send(response, WaId(i.payload)))],
                  AddMessage(st, Message("assistant", response, i.ev)))

DeliveryOutcomes == {"ok", "fail"}

\* a storage operation (get, put) returns or throws; a put that throws has
\* stored nothing
StorageOutcomes == {"ok", "throws"}
\* message of the Error thrown by a storage operation
ERR_STORAGE == "<storage error>"

\* a storage exception that leaves processMessage as an exception
OnReceiptFaultyUncaught(i, st, outcome, sto) ==
    IF sto = "ok" \/ UnsupportedMessage(InboundOf(i.payload))
    THEN OnReceipt(i, st, outcome)
    ELSE Step([i EXCEPT !.pc = "thrown"], st)

\* OnReceipt with a storage that may fail: an exception of getHistory or
\* addMessage reaches the outer catch; the unsupported branch uses no storage
OnReceiptFaulty(i, st, outcome, sto) ==
    IF sto = "ok" \/ UnsupportedMessage(InboundOf(i.payload))
    THEN OnReceipt(i, st, outcome)
    ELSE Returned(i, st, Result(FALSE, ERR_STORAGE, NONE))

\* OnGenerated with a storage that may fail: an exception of addMessage
\* reaches the outer catch before sendTextMessage is called
OnGeneratedFaulty(i, st, out, sto) ==
    IF sto = "ok"
    THEN OnGenerated(i, st, out)
    ELSE Returned([i EXCEPT !.gen = out, !.response = GenerateResponse(out)],
                  st, Result(FALSE, ERR_STORAGE, NONE))

\* processMessage from the settling of the reply's sendTextMessage (which
\* throws on a non-OK response) to its return
OnSent(i, st, outcome) ==
    LET j == [i EXCEPT !.delivery = outcome]
    IN  IF outcome = "ok"
        THEN Returned(j, st, Result(TRUE, NONE, i.response))
        ELSE Returned(j, st, Result(FALSE, ERR_SEND, NONE))

\* processMessage from the settling of the fallback notice's sendTextMessage
\* to its return; an exception there reaches the outer catch
OnFallbackSent(i, st, outcome) ==
    LET j == [i EXCEPT !.delivery = outcome]
    IN  IF outcome = "ok"
        THEN Returned(j, st, Result(FALSE, ERR_UNSUPPORTED, NONE))
        ELSE Returned(j, st, Result(FALSE, ERR_SEND_THROWN, NONE))

\* ------------------------------------------------------------------ worker
\* an answer of POST /webhook, with the payload of the request it answers:
\* c.json({message, error}, status)
Http(p, status, message, error) ==
    [payload |-> p, status |-> status, message |-> message, error |-> error]
NoHttp == Http(Payload(FALSE, FALSE, <<>>, FALSE, <<>>), 0, NONE, NONE)

MSG_NOT_VALID == "Not a valid message object"
MSG_INVALID == "Invalid webhook data"
MSG_PROCESSED == "Message processed successfully"
MSG_FAILED == "Processing failed"
ERR_CAUGHT == "Failed to process message"

\* every wa_id named to the same object
IdFromNameShared(waId) == "u1"

\* CONVERSATIONS.idFromName: the object's name is the wa_id itself
IdFromName(waId) == waId

\* POST /webhook answers without calling an object:
\* !changes?.value?.messages || !changes?.value?.contacts, or !contact || !message
WorkerSkips(p) == InvalidWebhookData(p) \/ MissingContactOrMessage(p)

\* a skipped payload answered as an error
SkippedAsError(p) == Http(p, 500, MSG_FAILED, ERR_INVALID)

\* the answer to a payload that is skipped: c.json without a status, so 200
Skipped(p) ==
    Http(p, 200, IF InvalidWebhookData(p) THEN MSG_NOT_VALID ELSE MSG_INVALID, NONE)

\* every result answered as a success
AnswerAlwaysOk(p, result) == Http(p, 200, MSG_PROCESSED, NONE)

\* the answer once processMessage has returned its result
Answer(p, result) ==
    IF result.success
    THEN Http(p, 200, MSG_PROCESSED, NONE)
    ELSE Http(p, 500, MSG_FAILED, result.error)

\* the answer of the handler's catch
Caught(p) == Http(p, 500, NONE, ERR_CAUGHT)

\* the invocations of object k that are in progress
Busy(k) == { s \in Slots : inv[k][s].pc \notin {"idle", "done"} }
FreeSlots(k) == { s \in Slots : inv[k][s].pc = "idle" }
\* the invocations whose caller has not yet taken the result, over all objects
Open == { ks \in Keys \X Slots : inv[ks[1]][ks[2]].pc # "idle" }
FirstFree(k) == CHOOSE s \in FreeSlots(k) : \A t \in FreeSlots(k) : s <= t

\* a finished invocation whose result the caller has not taken yet.  A
\* finished invocation touches nothing any more, so its result is handed back
\* (Return) before the next step of anything else is looked at.
Finished == { ks \in Keys \X Slots : inv[ks[1]][ks[2]].pc = "done" }

\* the object k starts processMessage(p); at most MaxInFlight invocations are
\* open at a time, over all objects
Invoke(k, p) ==
    /\ Cardinality(Open) < MaxInFlight
    /\ LET r == Begin(p, nextEv, storage[k])
       IN  /\ inv' = [inv EXCEPT ![k][FirstFree(k)] = r.inv]
           /\ storage' = [storage EXCEPT ![k] = r.st]
           /\ nextEv' = IF r.inv.pc = "done" THEN nextEv ELSE nextEv + 1

\* ----------------------------------------------------------------- actions
\* the handler of POST /webhook: skip what is no message event, else forward the payload to
\* the object named after the contact's wa_id
Route(p) ==
    /\ Finished = {}
    /\ IF WorkerSkips(p)
       THEN UNCHANGED <<storage, inv, nextEv>>
       ELSE Invoke(IdFromName(WaId(p)), p)
    /\ UNCHANGED <<receiptFailed, log, appStore>>

Forward(p) == Route(p) /\ UNCHANGED http

PostWebhook(p) ==
    /\ nextEv <= MaxEvents
    /\ Forward(p)

\* processMessage called on an object directly, with a payload the worker
\* would not forward
ProcessMessage(k, p) ==
    /\ Finished = {}
    /\ nextEv <= MaxEvents
    /\ WorkerSkips(p)
    /\ Invoke(k, p)
    /\ UNCHANGED <<receiptFailed, log, appStore, http>>

Advance(k, s, r) ==
    /\ Finished = {}
    /\ inv' = [inv EXCEPT ![k][s] = r.inv]
    /\ storage' = [storage EXCEPT ![k] = r.st]
    /\ UNCHANGED <<nextEv, log, appStore, http>>

\* the fetch of markMessageAsRead settles
MarkMessageAsReadSettles(k, s, outcome) ==
    /\ inv[k][s].pc = "receipt"
    /\ Advance(k, s, OnReceipt(inv[k][s], storage[k], outcome))
    /\ receiptFailed' = (receiptFailed \/ outcome # "ok")

\* generateText settles
GenerateTextSettles(k, s, out) ==
    /\ inv[k][s].pc = "generate"
    /\ Advance(k, s, OnGenerated(inv[k][s], storage[k], out))
    /\ UNCHANGED receiptFailed

\* the fetch of the reply's sendTextMessage settles
SendTextMessageSettles(k, s, outcome) ==
    /\ inv[k][s].pc = "send"
    /\ Advance(k, s, OnSent(inv[k][s], storage[k], outcome))
    /\ UNCHANGED receiptFailed

\* the fetch of the fallback notice's sendTextMessage settles
SendFallbackSettles(k, s, outcome) ==
    /\ inv[k][s].pc = "fallback_send"
    /\ Advance(k, s, OnFallbackSent(inv[k][s], storage[k], outcome))
    /\ UNCHANGED receiptFailed

\* the promise of a finished invocation resolves
Resolve(k, s) ==
    /\ inv[k][s].pc = "done"
    /\ inv' = [inv EXCEPT ![k][s] = Idle]
    /\ UNCHANGED <<storage, nextEv, receiptFailed, log, appStore>>

\* the caller has the result of a finished invocation
Return(k, s) == Resolve(k, s) /\ UNCHANGED http

\* clearHistory deleting under another key than 'messages'
ClearHistoryOtherKey(k) ==
    /\ Finished = {}
    /\ nextEv <= MaxEvents
    /\ nextEv' = nextEv + 1
    /\ UNCHANGED <<storage, inv, receiptFailed, log, appStore, http>>

\* clearHistory called on the object k: storage.delete('messages')
ClearHistory(k) ==
    /\ Finished = {}
    /\ nextEv <= MaxEvents
    /\ nextEv' = nextEv + 1
    /\ storage' = [storage EXCEPT ![k] = Absent]
    /\ UNCHANGED <<inv, receiptFailed, log, appStore, http>>

\* ------------------------------------------------------------------- specs
\* a history left by earlier exchanges: n messages, user and assistant in turn
Prefill(n) ==
    [x \in 1..n |->
        IF x % 2 = 1 THEN Message("user", "Hello", x - n - 1)
        ELSE Message("assistant", "Hi! How can I help?", x - n - 1)]

InitLens == {MAX_MESSAGES}
InitStores == {Absent} \cup { Stored(Prefill(n)) : n \in InitLens }

Init ==
    /\ \E st \in InitStores : storage = [k \in Keys |-> st]
    /\ inv = [k \in Keys |-> [s \in Slots |-> Idle]]
    /\ nextEv = 1
    /\ receiptFailed = FALSE
    /\ log = <<>>
    /\ appStore = Absent
    /\ http = NoHttp

Next ==
    \/ \E p \in Payloads : PostWebhook(p)
    \/ \E k \in Keys, p \in Payloads : ProcessMessage(k, p)
    \/ \E k \in Keys, s \in Slots, o \in ReceiptOutcomes : MarkMessageAsReadSettles(k, s, o)
    \/ \E k \in Keys, s \in Slots, o \in GenOutcomes : GenerateTextSettles(k, s, o)
    \/ \E k \in Keys, s \in Slots, o \in DeliveryOutcomes : SendTextMessageSettles(k, s, o)
    \/ \E k \in Keys, s \in Slots, o \in DeliveryOutcomes : SendFallbackSettles(k, s, o)
    \/ \E k \in Keys, s \in Slots : Return(k, s)
    \/ \E k \in Keys : ClearHistory(k)

Spec == Init /\ [][Next]_vars

\* addMessage alone: messages appended one after another to an empty store
Marked(l) == Cardinality({ x \in 1..Len(l) : l[x].role # "user" })

AppendMessage(r) ==
    /\ Len(log) < MaxAppends
    /\ r # "user" => Marked(log) < MaxMarked
    /\ LET m == Message(r, "m", Len(log) + 1)
       IN  /\ log' = Append(log, m)
           /\ appStore' = AddMessage(appStore, m)
    /\ UNCHANGED <<storage, inv, nextEv, receiptFailed, http>>

InitAppend ==
    /\ storage = [k \in Keys |-> Absent]
    /\ inv = [k \in Keys |-> [s \in Slots |-> Idle]]
    /\ nextEv = 1
    /\ receiptFailed = FALSE
    /\ log = <<>>
    /\ appStore = Absent
    /\ http = NoHttp

NextAppend == \E r \in Roles : AppendMessage(r)

SpecAppend == InitAppend /\ [][NextAppend]_vars

\* A burst of text messages from one user: the first message's invocation may
\* stay suspended in its awaits while the later ones are processed one after
\* another; every receipt succeeds and the generator answers.
BurstUser == "u1"
BurstPayload == Payload(TRUE, TRUE, <<BurstUser>>, TRUE, <<Inbound("text", TRUE, "Hello")>>)
BurstReply == [kind |-> "ok", text |-> "Hi! How can I help?"]

BurstPost ==
    /\ nextEv <= BurstEvents
    /\ \A ks \in Open : inv[ks[1]][ks[2]].ev = 1
    /\ Forward(BurstPayload)

InitBurst ==
    /\ storage = [k \in Keys |-> Absent]
    /\ inv = [k \in Keys |-> [s \in Slots |-> Idle]]
    /\ nextEv = 1
    /\ receiptFailed = FALSE
    /\ log = <<>>
    /\ appStore = Absent
    /\ http = NoHttp

\* only the delivery of the first message's reply may fail
BurstSendSettles(s, o) ==
    /\ inv[BurstUser][s].ev # 1 => o = "ok"
    /\ SendTextMessageSettles(BurstUser, s, o)

NextBurst ==
    \/ BurstPost
    \/ \E s \in Slots : MarkMessageAsReadSettles(BurstUser, s, "ok")
    \/ \E s \in Slots : GenerateTextSettles(BurstUser, s, BurstReply)
    \/ \E s \in Slots, o \in DeliveryOutcomes : BurstSendSettles(s, o)
    \/ \E s \in Slots : Return(BurstUser, s)

SpecBurst == InitBurst /\ [][NextBurst]_vars

\* POST /webhook with its answers: the requests reach the objects through
\* the worker only, and the worker answers each of them.  A request is
\* followed from its arrival to its answer before the next one arrives.
WebhookPost(p) ==
    /\ nextEv <= MaxEvents
    /\ Open = {}
    /\ Route(p)
    /\ http' = IF WorkerSkips(p) THEN Skipped(p) ELSE http

\* stub.processMessage(body) rejects (the object could not be run) and the
\* handler's catch answers
WebhookCatches(p) ==
    /\ nextEv <= MaxEvents
    /\ Open = {}
    /\ ~WorkerSkips(p)
    /\ http' = Caught(p)
    /\ nextEv' = nextEv + 1
    /\ UNCHANGED <<storage, inv, receiptFailed, log, appStore>>

\* stub.processMessage(body) resolves and the handler answers
WebhookAnswers(k, s) ==
    /\ Resolve(k, s)
    /\ http' = Answer(inv[k][s].payload, inv[k][s].result)

NextHttp ==
    \/ \E p \in Payloads : WebhookPost(p)
    \/ \E p \in Payloads : WebhookCatches(p)
    \/ \E k \in Keys, s \in Slots, o \in ReceiptOutcomes : MarkMessageAsReadSettles(k, s, o)
    \/ \E k \in Keys, s \in Slots, o \in GenOutcomes : GenerateTextSettles(k, s, o)
    \/ \E k \in Keys, s \in Slots, o \in DeliveryOutcomes : SendTextMessageSettles(k, s, o)
    \/ \E k \in Keys, s \in Slots, o \in DeliveryOutcomes : SendFallbackSettles(k, s, o)
    \/ \E k \in Keys, s \in Slots : WebhookAnswers(k, s)

SpecHttp == Init /\ [][NextHttp]_vars

\* The objects with a storage whose operations may throw, every external
\* call settling sooner or later and every result being taken.  The course of
\* an invocation depends on its payload and on the outcomes of its own calls
\* only, so the requests are taken one at a time here.
PostWebhookAlone(p) == Open = {} /\ PostWebhook(p)

ReceiptSettlesFaulty(k, s, outcome, sto) ==
    /\ inv[k][s].pc = "receipt"
    /\ Advance(k, s, OnReceiptFaulty(inv[k][s], storage[k], outcome, sto))
    /\ UNCHANGED receiptFailed

GenerateSettlesFaulty(k, s, out, sto) ==
    /\ inv[k][s].pc = "generate"
    /\ Advance(k, s, OnGeneratedFaulty(inv[k][s], storage[k], out, sto))
    /\ UNCHANGED receiptFailed

ReceiptSettlesSome(k, s) ==
    \E o \in ReceiptOutcomes, sto \in StorageOutcomes : ReceiptSettlesFaulty(k, s, o, sto)
GenerateSettlesSome(k, s) ==
    \E o \in GenOutcomes, sto \in StorageOutcomes : GenerateSettlesFaulty(k, s, o, sto)
SendSettlesSome(k, s) ==
    \E o \in DeliveryOutcomes : SendTextMessageSettles(k, s, o)
FallbackSettlesSome(k, s) ==
    \E o \in DeliveryOutcomes : SendFallbackSettles(k, s, o)

NextFaulty ==
    \/ \E p \in Payloads : PostWebhookAlone(p)
    \/ \E k \in Keys, s \in Slots : ReceiptSettlesSome(k, s)
    \/ \E k \in Keys, s \in Slots : GenerateSettlesSome(k, s)
    \/ \E k \in Keys, s \in Slots : SendSettlesSome(k, s)
    \/ \E k \in Keys, s \in Slots : FallbackSettlesSome(k, s)
    \/ \E k \in Keys, s \in Slots : Return(k, s)

\* some pending external call settles, or some result is taken
Settles ==
    \E k \in Keys, s \in Slots :
        \/ ReceiptSettlesSome(k, s)
        \/ GenerateSettlesSome(k, s)
        \/ SendSettlesSome(k, s)
        \/ FallbackSettlesSome(k, s)
        \/ Return(k, s)

\* external calls return or fail in the end and results are taken: while
\* anything is pending, something pending settles
FairFaulty == WF_vars(Settles)

SpecFaulty == Init /\ [][NextFaulty]_vars /\ FairFaulty

\* The operations of an object taken one at a time: a processMessage or a
\* clearHistory starts on an object only when no invocation is in progress
\* there; different objects run side by side.  Storage does not fail.
PostWebhookSerial(p) ==
    /\ ~WorkerSkips(p) => Busy(IdFromName(WaId(p))) = {}
    /\ PostWebhook(p)

ProcessMessageSerial(k, p) == Busy(k) = {} /\ ProcessMessage(k, p)

ClearHistorySerial(k) == Busy(k) = {} /\ ClearHistory(k)

NextSerial ==
    \/ \E p \in Payloads : PostWebhookSerial(p)
    \/ \E k \in Keys, p \in Payloads : ProcessMessageSerial(k, p)
    \/ \E k \in Keys, s \in Slots, o \in ReceiptOutcomes : MarkMessageAsReadSettles(k, s, o)
    \/ \E k \in Keys, s \in Slots, o \in GenOutcomes : GenerateTextSettles(k, s, o)
    \/ \E k \in Keys, s \in Slots, o \in DeliveryOutcomes : SendTextMessageSettles(k, s, o)
    \/ \E k \in Keys, s \in Slots, o \in DeliveryOutcomes : SendFallbackSettles(k, s, o)
    \/ \E k \in Keys, s \in Slots : Return(k, s)
    \/ \E k \in Keys : ClearHistorySerial(k)

SpecSerial == Init /\ [][NextSerial]_vars

\* Message events only: processMessage invocations that overlap freely at
\* their awaits, with no clearHistory call.
NextMessages ==
    \/ \E p \in Payloads : PostWebhook(p)
    \/ \E k \in Keys, s \in Slots, o \in ReceiptOutcomes : MarkMessageAsReadSettles(k, s, o)
    \/ \E k \in Keys, s \in Slots, o \in GenOutcomes : GenerateTextSettles(k, s, o)
    \/ \E k \in Keys, s \in Slots, o \in DeliveryOutcomes : SendTextMessageSettles(k, s, o)
    \/ \E k \in Keys, s \in Slots, o \in DeliveryOutcomes : SendFallbackSettles(k, s, o)
    \/ \E k \in Keys, s \in Slots : Return(k, s)

SpecMessages == Init /\ [][NextMessages]_vars

\* ------------------------------------------------------------------ claims
Min(a, b) == IF a < b THEN a ELSE b
LastN(l, n) == SubSeq(l, Len(l) - Min(n, Len(l)) + 1, Len(l))
Last(l) == l[Len(l)]
Invocations == Keys \X Slots
At(ks) == inv[ks[1]][ks[2]]
Started(i) == i.pc # "idle"
\* the invocation got a text message with a body
IsText(i) ==
    /\ i.pc \notin {"idle"}
    /\ i.payload.entry /\ i.payload.contacts.has /\ i.payload.messages.has
    /\ Len(i.payload.contacts.items) > 0 /\ Len(i.payload.messages.items) > 0
    /\ InboundOf(i.payload).type = "text"
    /\ InboundOf(i.payload).text.has
    /\ InboundOf(i.payload).text.body # ""
UserMessageOf(i) == Message("user", InboundOf(i.payload).text.body, i.ev)

\* C1: in every reachable state, also between the two appends of one
\* invocation, the stored history of every object holds at most MAX_MESSAGES
\* (20) messages.
C1_HistoryBounded ==
    \A k \in Keys : Len(GetHistory(storage[k])) <= MAX_MESSAGES

\* a full history whose oldest entries were dropped, seen between the two
\* appends of an invocation
C1_Witness ==
    \E ks \in Invocations :
        /\ At(ks).pc = "generate"
        /\ Len(GetHistory(storage[ks[1]])) = MAX_MESSAGES
        /\ GetHistory(storage[ks[1]])[1].role = "assistant"
        /\ Last(GetHistory(storage[ks[1]])) = UserMessageOf(At(ks))

\* C2: after N messages were appended one after another with addMessage to an
\* empty store, the stored history has length min(N, 20) and is exactly the
\* last min(N, 20) appended messages in their order.
C2_SlidingWindow ==
    /\ Len(GetHistory(appStore)) = Min(Len(log), MAX_MESSAGES)
    /\ GetHistory(appStore) = LastN(log, MAX_MESSAGES)

C2_Witness ==
    /\ Len(log) > MAX_MESSAGES
    /\ Len(GetHistory(appStore)) = MAX_MESSAGES
    /\ log[1].role # "user"

\* C3: for each object at most one processMessage invocation is in progress
\* at any time.
C3_SingleWriter ==
    \A k \in Keys : Cardinality(Busy(k)) <= 1

\* C4: in a stored history, every message of an earlier message event comes
\* before the user message of a later one, and the assistant reply of an event
\* directly follows that event's user message.
C4_OrderedPerUser ==
    \A k \in Keys :
        LET h == GetHistory(storage[k])
        IN  \A x, y \in 1..Len(h) :
                /\ (/\ h[x].timestamp > 0
                    /\ h[y].timestamp > h[x].timestamp
                    /\ h[y].role = "user") => x < y
                /\ (/\ h[x].timestamp > 0
                    /\ h[x].timestamp = h[y].timestamp
                    /\ h[x].role = "user"
                    /\ h[y].role = "assistant") => y = x + 1

\* C5: when a text event is processed against the loaded history H, the
\* generator returns a non-empty text T and delivery succeeds, then at the return the
\* stored history is the last 20 of H, the user message, the assistant message
\* with content T; sendTextMessage was called exactly once, with (T, wa_id);
\* and the result is success=true, response=T.
C5_SuccessfulExchange ==
    \A ks \in Invocations :
        LET i == At(ks)
            T == i.gen.text
        IN  (/\ i.pc = "done" /\ IsText(i)
             /\ i.gen.kind = "ok" /\ T # ""
             /\ i.delivery = "ok")
            => /\ i.final = LastN(i.history \o
                                  <<UserMessageOf(i), Message("assistant", T, i.ev)>>,
                                  MAX_MESSAGES)
               /\ i.sends = <<Send(T, WaId(i.payload))>>
               /\ i.result = Result(TRUE, NONE, T)

Range(l) == { l[x] : x \in 1..Len(l) }
AssistantMessageOf(i) == Message("assistant", i.response, i.ev)

\* C6: when the reply's sendTextMessage fails, processMessage returns
\* success=false with error "Failed to send WhatsApp message" and the stored
\* history at that moment contains both the user message and the assistant
\* message of the invocation.
C6_DeliveryFailureKeepsHistory ==
    \A ks \in Invocations :
        LET i == At(ks)
        IN  (/\ i.pc = "done" /\ IsText(i)
             /\ i.response # NONE /\ i.delivery = "fail")
            => /\ i.result = Result(FALSE, ERR_SEND, NONE)
               /\ UserMessageOf(i) \in Range(i.final)
               /\ AssistantMessageOf(i) \in Range(i.final)

WaitsForReply(i) == i.pc \in {"send", "done"}

C7_Inv ==
    \A ks \in Invocations :
        LET i == At(ks)
        IN  i.gen.kind = "throw"
            => /\ WaitsForReply(i)
               /\ i.response = APOLOGY
               /\ i.sends = <<Send(APOLOGY, WaId(i.payload))>>
               /\ i.pc = "done"
                  => i.result = IF i.delivery = "ok"
                                THEN Result(TRUE, NONE, APOLOGY)
                                ELSE Result(FALSE, ERR_SEND, NONE)

C7_Act ==
    \A ks \in Invocations :
        (/\ inv[ks[1]][ks[2]].pc = "generate"
         /\ inv'[ks[1]][ks[2]].gen.kind = "throw")
        => Last(GetHistory(storage'[ks[1]]))
              = Message("assistant", APOLOGY, inv[ks[1]][ks[2]].ev)

\* C7: when generateText fails, processMessage does not abort: the assistant
\* message it appends to the history has the apology text, the same text is
\* what it hands to sendTextMessage, and it returns success=true with that
\* text unless the delivery fails too.
C7_GeneratorFailureDegrades == []C7_Inv /\ [][C7_Act]_vars

C7_Witness ==
    \E ks \in Invocations :
        /\ At(ks).pc = "done"
        /\ At(ks).gen.kind = "throw"
        /\ At(ks).result = Result(TRUE, NONE, APOLOGY)
        /\ Message("assistant", APOLOGY, At(ks).ev) \in Range(At(ks).final)

HasContactAndMessage(p) ==
    /\ p.entry /\ p.contacts.has /\ p.messages.has
    /\ Len(p.contacts.items) > 0 /\ Len(p.messages.items) > 0

\* the invocation got a message that is not plain text: another type, or no
\* text body
NotPlainText(i) ==
    /\ Started(i)
    /\ HasContactAndMessage(i.payload)
    /\ \/ InboundOf(i.payload).type # "text"
       \/ ~InboundOf(i.payload).text.has
       \/ InboundOf(i.payload).text.body = ""

C8_Inv ==
    \A ks \in Invocations :
        LET i == At(ks)
        IN  NotPlainText(i)
            => /\ i.genCalls = <<>>
               /\ i.pc \in {"receipt", "fallback_send", "done"}
               /\ i.pc = "receipt" => i.sends = <<>>
               /\ i.pc \in {"fallback_send", "done"}
                  => i.sends = <<Send(FALLBACK_NOTICE, WaId(i.payload))>>
               /\ i.pc = "done" => ~i.result.success

C8_Act ==
    \A ks \in Invocations :
        (/\ inv'[ks[1]][ks[2]] # inv[ks[1]][ks[2]]
         /\ NotPlainText(inv'[ks[1]][ks[2]]))
        => storage' = storage

\* C8: for an inbound message that is not plain text, no step of processMessage
\* changes any stored history, generateText is never called, sendTextMessage
\* is called exactly once, with the fallback notice and the inbound wa_id, and
\* the result is success=false.
C8_NonTextLeavesHistory == []C8_Inv /\ [][C8_Act]_vars

C8_Witness ==
    \E ks \in Invocations :
        /\ At(ks).pc = "done"
        /\ NotPlainText(At(ks))
        /\ InboundOf(At(ks).payload).type = "image"
        /\ At(ks).result = Result(FALSE, ERR_UNSUPPORTED, NONE)
        /\ At(ks).final # <<>>

\* the contacts or the messages field is absent
LacksField(p) == ~p.entry \/ ~p.contacts.has \/ ~p.messages.has

\* both fields are there, and one of them has no first element
LacksFirstElement(p) ==
    /\ ~LacksField(p)
    /\ Len(p.contacts.items) = 0 \/ Len(p.messages.items) = 0

NoCalls(i) == i.receiptCalls = 0 /\ i.genCalls = <<>> /\ i.sends = <<>>

\* an invocation with such a payload never changes a stored history
C9_Act ==
    \A ks \in Invocations :
        (/\ inv'[ks[1]][ks[2]] # inv[ks[1]][ks[2]]
         /\ Started(inv'[ks[1]][ks[2]])
         /\ ~HasContactAndMessage(inv'[ks[1]][ks[2]].payload))
        => storage' = storage

C9_OriginalInv ==
    \A ks \in Invocations :
        LET i == At(ks)
        IN  (Started(i) /\ ~HasContactAndMessage(i.payload))
            => /\ i.pc = "done"
               /\ i.result = Result(FALSE, ERR_INVALID, NONE)
               /\ NoCalls(i)

\* C9 as claimed: for every payload that lacks a contact or a message (field
\* absent, or present with no first element) processMessage returns
\* success=false with error "Invalid webhook data", calls no collaborator and
\* changes no stored history.
C9_Original == []C9_OriginalInv /\ [][C9_Act]_vars

C9_AmendedInv ==
    \A ks \in Invocations :
        LET i == At(ks)
        IN  (Started(i) /\ ~HasContactAndMessage(i.payload))
            => /\ i.pc = "done"
               /\ LacksField(i.payload)
                  => i.result = Result(FALSE, ERR_INVALID, NONE)
               /\ LacksFirstElement(i.payload)
                  => i.result = Result(FALSE, ERR_MISSING, NONE)
               /\ NoCalls(i)

\* C9 amended: for a payload whose contacts or messages field is absent
\* processMessage returns success=false with error "Invalid webhook data"; for
\* one where both are present and one has no first element it returns
\* success=false with error "Missing contact or message"; either way it calls
\* no collaborator and changes no stored history.
C9_InvalidPayloadRejected == []C9_AmendedInv /\ [][C9_Act]_vars

C9_Witness ==
    \E ks \in Invocations :
        /\ At(ks).pc = "done"
        /\ LacksFirstElement(At(ks).payload)
        /\ At(ks).result = Result(FALSE, ERR_MISSING, NONE)
        /\ At(ks).final # <<>>

\* C10: the state in which processMessage goes on after markMessageAsRead has
\* settled (its locals, its calls to the generator and to the delivery channel,
\* its result, the stored history) is the one a successful receipt leads to,
\* whatever the receipt call did: succeed, answer non-OK, or throw.  All later
\* steps start from that state, so two runs that differ only in the receipt
\* agree from there on.
C10_ReceiptHasNoInfluence ==
    [][\A ks \in Invocations :
          (/\ inv[ks[1]][ks[2]].pc = "receipt"
           /\ inv'[ks[1]][ks[2]] # inv[ks[1]][ks[2]])
          => LET r == OnReceipt(inv[ks[1]][ks[2]], storage[ks[1]], "ok")
             IN  /\ inv'[ks[1]][ks[2]] = r.inv
                 /\ storage'[ks[1]] = r.st]_vars

\* a message event, the only one so far, whose receipt failed and which
\* nevertheless ended in a delivered reply
C10_Witness ==
    /\ receiptFailed
    /\ nextEv = 2
    /\ \E ks \in Invocations :
          /\ At(ks).pc = "done"
          /\ At(ks).ev = 1
          /\ At(ks).result.success

\* a clearHistory call: it takes an event number and starts no invocation
ClearHistoryStep == inv' = inv /\ nextEv' = nextEv + 1

\* the history a processMessage for wa_id k would load from the storage st
LoadedBy(k, st) ==
    LET p == Payload(TRUE, TRUE, <<k>>, TRUE, <<Inbound("text", TRUE, "Hello")>>)
        b == Begin(p, 0, st)
    IN  OnReceipt(b.inv, b.st, "ok").inv.history

\* C11: whatever was stored before, right after clearHistory on an object
\* getHistory gives the empty list and a processMessage starting there loads
\* the empty history; clearHistory on an empty history (also right after
\* another clearHistory) changes nothing; no other object's storage changes.
C11_ClearHistoryEmpties ==
    [][ClearHistoryStep =>
          \E k \in Keys :
              /\ GetHistory(storage'[k]) = <<>>
              /\ LoadedBy(k, storage'[k]) = <<>>
              /\ GetHistory(storage[k]) = <<>> => storage' = storage
              /\ \A j \in Keys \ {k} : storage'[j] = storage[j]]_vars

\* after two events, the later one a clearHistory on an object that had a full
\* history (the earlier one another clearHistory or a message for that object)
C11_Witness ==
    /\ nextEv = 3
    /\ \A ks \in Invocations : At(ks).pc = "idle"
    /\ \E k \in Keys :
          /\ storage[k] = Absent
          /\ \A j \in Keys \ {k} : Len(GetHistory(storage[j])) = MAX_MESSAGES

\* no invocation was started for a payload without a contact or a message
C12_Inv ==
    \A ks \in Invocations :
        Started(At(ks)) => HasContactAndMessage(At(ks).payload)

\* a step of the handler: it answers, or it calls an object
HandlerStep == http' # http \/ nextEv' # nextEv

CallsOf(i) == Len(i.genCalls) + Len(i.sends)

C12_Act ==
    /\ HandlerStep
       => /\ storage' = storage
          /\ \A ks \in Invocations :
                CallsOf(inv'[ks[1]][ks[2]]) <= CallsOf(inv[ks[1]][ks[2]])
    /\ (http' # http /\ ~HasContactAndMessage(http'.payload))
       => /\ http'.status = 200
          /\ inv' = inv
          /\ nextEv' = nextEv

\* C12: no step of the POST /webhook handler changes a stored history or adds
\* a call to generateText or sendTextMessage; a payload without a contact or
\* without a message is answered with status 200, and no object is called for
\* it.
C12_DispatcherFailsFast == []C12_Inv /\ [][C12_Act]_vars

\* an empty contacts array acknowledged after an earlier exchange was stored
C12_Witness ==
    /\ http.status = 200
    /\ LacksFirstElement(http.payload)
    /\ nextEv = 2
    /\ \A ks \in Invocations : At(ks).pc = "idle"
    /\ \E k \in Keys : GetHistory(storage[k]) # <<>>

C14_Act ==
    /\ \A ks \in Invocations :
          (At(ks).pc = "done" /\ inv'[ks[1]][ks[2]].pc = "idle")
          => /\ http'.payload = At(ks).payload
             /\ http'.status = 200 <=> At(ks).result.success
             /\ ~At(ks).result.success
                => /\ http'.status = 500
                   /\ http'.error = At(ks).result.error
                   /\ http'.error # NONE
    /\ (http' # http /\ inv' = inv /\ HasContactAndMessage(http'.payload))
       => http'.status = 500 /\ http'.error # NONE

\* C14: for a payload with a contact and a message, the answer given when
\* processMessage has returned is 200 exactly when the result has
\* success=true, and otherwise 500 with the result's error in the body; when
\* the call threw, the answer is 500 with an error in the body.
C14_StatusFollowsResult == [][C14_Act]_vars

\* a delivery failure answered with 500, after an earlier request
C14_Witness ==
    /\ http.status = 500
    /\ http.error = ERR_SEND
    /\ HasContactAndMessage(http.payload)
    /\ nextEv = 3

\* the invocations started for a payload that names a wa_id
Routed == { ks \in Invocations :
              Started(At(ks)) /\ HasContactAndMessage(At(ks).payload) }

C13_Inv ==
    /\ \A a, b \in Keys : IdFromName(a) = IdFromName(b) <=> a = b
    /\ \A x, y \in Routed :
          WaId(At(x).payload) = WaId(At(y).payload) <=> x[1] = y[1]

C13_Act ==
    \A k \in Keys :
        /\ inv'[k] # inv[k]
           => \A j \in Keys \ {k} : storage'[j] = storage[j]
        /\ storage'[k] # storage[k]
           => /\ inv'[k] # inv[k] \/ ClearHistoryStep
              /\ \A j \in Keys \ {k} : inv'[j] = inv[j]

\* C13: invocations for the same wa_id run on the same object and invocations
\* for different wa_ids on different objects; a step of an invocation of one
\* object (whatever its outcome, and with invocations of other objects in
\* progress) leaves the stored history of every other object unchanged, and a
\* stored history changes only by a step of its own object.
C13_UsersIsolated == []C13_Inv /\ [][C13_Act]_vars

\* invocations for two users in progress at once, one of them with its user
\* message stored
C13_Witness ==
    \E s, t \in Slots :
        /\ inv["u1"][s].pc = "generate"
        /\ inv["u2"][t].pc = "receipt"
        /\ storage["u1"] # storage["u2"]
        /\ Last(GetHistory(storage["u1"])) = UserMessageOf(inv["u1"][s])

\* C15: when processMessage calls the generator, the messages it passes are
\* the stored history as it stands right after the user message was appended
\* and trimmed.
C15_GeneratorSeesStoredHistory ==
    [][\A ks \in Invocations :
          (At(ks).pc = "receipt" /\ inv'[ks[1]][ks[2]].pc = "generate")
          => Last(inv'[ks[1]][ks[2]].genCalls) = GetHistory(storage'[ks[1]])]_vars

\* C16: the user message is stored when the generator is called, and when the
\* invocation returns (the generator having failed or not, the delivery
\* having failed or not) the stored history still contains it.
C16_UserMessageStays ==
    \A ks \in Invocations :
        LET i == At(ks)
        IN  /\ i.pc = "generate"
               => UserMessageOf(i) \in Range(GetHistory(storage[ks[1]]))
            /\ (i.pc = "done" /\ i.genCalls # <<>>)
               => UserMessageOf(i) \in Range(i.final)

\* C17: an invocation whose inbound message is not plain text returns
\* success=false with error "Unsupported message type", whether the fallback
\* notice could be sent or not.
C17_UnsupportedError ==
    \A ks \in Invocations :
        (At(ks).pc = "done" /\ NotPlainText(At(ks)))
        => At(ks).result = Result(FALSE, ERR_UNSUPPORTED, NONE)

InProgress == {"receipt", "generate", "send", "fallback_send"}

\* how far an invocation has come
Rank(pc) ==
    CASE pc = "idle" -> 0
      [] pc = "receipt" -> 1
      [] pc \in {"generate", "fallback_send"} -> 2
      [] pc = "send" -> 3
      [] OTHER -> 4

C18_Inv ==
    \A ks \in Invocations :
        LET i == At(ks)
        IN  /\ i.pc \in {"idle", "done"} \cup InProgress
            /\ i.receiptCalls <= 1
            /\ Len(i.genCalls) <= 1
            /\ Len(i.sends) <= 1
            /\ i.pc = "done"
               => /\ i.result.success \in BOOLEAN
                  /\ ~i.result.success => i.result.error # NONE
                  /\ i.result.success => i.result.response # NONE

C18_Act ==
    \A ks \in Invocations :
        (At(ks).pc \in InProgress /\ inv'[ks[1]][ks[2]] # At(ks))
        => Rank(inv'[ks[1]][ks[2]].pc) > Rank(At(ks).pc)

C18_Live ==
    \A ks \in Invocations : (At(ks).pc \in InProgress) ~> (At(ks).pc = "done")

\* C18: an invocation only moves forward and ends by returning a result, never
\* by throwing: provided every external call settles, an invocation in
\* progress reaches its return; a storage exception gives success=false with
\* an error; markMessageAsRead, generateText and sendTextMessage are each
\* called at most once by an invocation.
C18_SinglePass == []C18_Inv /\ [][C18_Act]_vars /\ C18_Live

\* an invocation ended by a storage exception after the generator had answered
C18_Witness ==
    \E ks \in Invocations :
        /\ At(ks).pc = "done"
        /\ At(ks).result = Result(FALSE, ERR_STORAGE, NONE)
        /\ Len(At(ks).genCalls) = 1
        /\ At(ks).gen.kind = "ok"
        /\ At(ks).sends = <<>>

\* C19: every message of every stored history has a non-empty content and the
\* role user or assistant; a text message without a body or with an empty one
\* is not stored, and an empty generator output is stored as the fixed
\* fallback text.
C19_StoredMessagesWellFormed ==
    /\ \A k \in Keys :
          \A m \in Range(GetHistory(storage[k])) :
              m.content # "" /\ m.role \in {"user", "assistant"}
    /\ \A ks \in Invocations :
          /\ (NotPlainText(At(ks)) /\ At(ks).pc = "done")
             => \A m \in Range(At(ks).final) : m.timestamp # At(ks).ev
          /\ (At(ks).pc = "send" /\ At(ks).gen = [kind |-> "ok", text |-> ""])
             => At(ks).response = NO_RESPONSE

\* the generator gave an empty text and the fallback text was stored in its
\* place, after a text message without a body had been turned away
C19_Witness ==
    \E ks \in Invocations :
        /\ At(ks).pc = "done"
        /\ At(ks).ev = 2
        /\ At(ks).gen = [kind |-> "ok", text |-> ""]
        /\ Last(At(ks).final) = Message("assistant", NO_RESPONSE, 2)
        /\ \A m \in Range(At(ks).final) : m.timestamp # 1

\* user, assistant, user, assistant, ...: even length, starting with a user
\* message
Alternates(h) ==
    /\ Len(h) % 2 = 0
    /\ \A x \in 1..Len(h) :
          h[x].role = IF x % 2 = 1 THEN "user" ELSE "assistant"

\* C20: with the operations of an object run one at a time and a storage that
\* does not fail, the stored history of an object with no invocation in
\* progress, and the history at every return (invalid, unsupported, success,
\* generator failure, delivery failure), has even length and alternates user,
\* assistant, starting with a user message, also once the trim drops entries.
C20_Alternation ==
    /\ \A k \in Keys : Busy(k) = {} => Alternates(GetHistory(storage[k]))
    /\ \A ks \in Invocations : At(ks).pc = "done" => Alternates(At(ks).final)

\* an exchange on a full history: the oldest exchange was dropped, and the
\* generator had failed
C20_Witness ==
    \E ks \in Invocations :
        /\ At(ks).pc = "done"
        /\ Len(At(ks).history) = MAX_MESSAGES
        /\ Len(At(ks).final) = MAX_MESSAGES
        /\ At(ks).final[1] = At(ks).history[3]
        /\ At(ks).gen.kind = "throw"
        /\ Last(At(ks).final) = AssistantMessageOf(At(ks))

\* how often the message m occurs in the history h
Count(h, m) == Cardinality({ x \in 1..Len(h) : h[x] = m })

\* the messages an invocation has appended so far
AppendedBy(i) ==
    (IF i.genCalls # <<>> THEN {UserMessageOf(i)} ELSE {})
    \cup (IF i.response # NONE THEN {AssistantMessageOf(i)} ELSE {})

\* the message a step appends: the user message when the receipt settles for
\* a text message, the assistant message when the generator settles
AppendOf(i, j) ==
    IF i.pc = "receipt" /\ j.pc = "generate" THEN <<UserMessageOf(j)>>
    ELSE IF i.pc = "generate" /\ j.pc = "send" THEN <<AssistantMessageOf(j)>>
    ELSE <<>>

\* every message appended by an invocation that has not yet handed back its
\* result is in the stored history once, and no message of a message event is
\* there twice
C21_Inv ==
    /\ \A ks \in Invocations :
          \A m \in AppendedBy(At(ks)) :
              Count(GetHistory(storage[ks[1]]), m) = 1
    /\ \A k \in Keys :
          \A m \in Range(GetHistory(storage[k])) :
              m.timestamp > 0 => Count(GetHistory(storage[k]), m) = 1

\* a step of an invocation appends to the history as stored at that moment,
\* whatever other invocations have appended since this one loaded it
C21_Act ==
    \A ks \in Invocations :
        inv'[ks[1]][ks[2]] # At(ks)
        => GetHistory(storage'[ks[1]])
              = LastN(GetHistory(storage[ks[1]])
                         \o AppendOf(At(ks), inv'[ks[1]][ks[2]]),
                      MAX_MESSAGES)

\* C21: when processMessage invocations of one object overlap at their awaits,
\* no append is lost: each append adds its message to the history as stored
\* at that moment and keeps the last 20, so every user and assistant message
\* appended by either invocation is in the stored history, exactly once (the
\* trim dropping only the oldest entries).
C21_NoLostAppend == []C21_Inv /\ [][C21_Act]_vars

\* two invocations of one object that overlapped: the second stored its user
\* message and its reply between the first one's user message and reply
C21_Witness ==
    \E k \in Keys, s, t \in Slots :
        LET h == GetHistory(storage[k])
            n == Len(h)
        IN  /\ inv[k][s].pc = "send" /\ inv[k][t].pc = "send"
            /\ inv[k][s].ev = 1 /\ inv[k][t].ev = 2
            /\ n >= 4
            /\ h[n - 3] = UserMessageOf(inv[k][s])
            /\ h[n - 2] = UserMessageOf(inv[k][t])
            /\ h[n - 1] = AssistantMessageOf(inv[k][t])
            /\ h[n] = AssistantMessageOf(inv[k][s])

====
